---------------------------- MODULE Spec2Model ----------------------------
(***************************************************************************)
(* A model of notebooks/amazon-web-services/cesm-lens.ipynb: the notebook  *)
(* run as a linear sequence of cells against a Dask cluster (Spec), and    *)
(* the data pipelines the cells evaluate, each under a specification of    *)
(* its own whose Init draws the input data from bounded sets.              *)
(***************************************************************************)
EXTENDS Integers, Sequences, FiniteSets, TLC

VARIABLES
    \* ---- the notebook run (Spec)
    pc,            \* index in Program of the next statement to execute
    clusterState,  \* "none", "open", "closed": the KubeCluster
    clientState,   \* "none", "open", "closed": the distributed Client
    adaptive,      \* TRUE once cluster.adapt(...) has been configured
    recommended,   \* the scheduler's last raw worker recommendation, or NoTarget
    target,        \* the autoscaler's last target worker count, or NoTarget
    failedAt,      \* index of the statement that raised, or 0
    completed,     \* set of statement indexes that ran to completion
    trace,         \* the cluster-related events of the run, in order
    firstRead,     \* index of the first statement that read bulk data, or 0
    \* ---- the seasonal pipelines of Figure 4 (SeasonSpec); times are month
    \* indexes, a resampled dataset is a function from the label of each
    \* season to the set of input months its mean is taken over
    spc,                \* the statement of the pipeline reached
    t_20c_time,         \* time axis of t_20c
    t_rcp_time,         \* time axis of t_rcp
    gistemp_time,       \* time axis of the GISTEMP dataset ds
    seasons,            \* seasons (lines 521, 523)
    winter_seasons,     \* winter_seasons (line 532)
    obs_seasons,        \* obs_seasons (lines 598, 600)
    obs_winter_seasons, \* obs_winter_seasons (line 603)
    \* ---- the global means of Figure 2 (Fig2Spec); the grid is a set of
    \* cells, a series is a function from <<year, member>> or year to a value
    fpc,           \* the statement of the pipeline reached
    member_id,     \* the member_id coordinate of t_20c and t_rcp (positions)
    t_seed,        \* selects the TREFHT values of the two experiments
    ds_area,       \* ds_20C.area: the area of each cell
    cell_area,     \* cell_area (line 252)
    total_area,    \* total_area (line 253)
    t_ref_mean,    \* t_ref_mean (line 301)
    t_20c_ts_df,   \* t_20c_ts_df (line 312)
    t_rcp_ts_df,   \* t_rcp_ts_df (line 323)
    hadcrut_time,  \* time axis of the HadCRUT4 dataset ds (line 350)
    air_seed,      \* selects the values and the gaps of ds["air"]
    wgts,          \* wgts of weighted_temporal_mean (line 369)
    obs_s,         \* obs_s (line 388)
    all_ts_anom,   \* all_ts_anom (line 398)
    \* ---- the maps of Figure 4 (MapSpec); members are numbered by position
    epc,                 \* the statement of the figure cell reached
    winter_trends,       \* winter_trends (line 535): <<member, cell>> to trend
    winter_trends_mean,  \* winter_trends_mean (line 540): cell to trend
    obs_winter_trends,   \* obs_winter_trends.tempanomaly (line 624): cell to trend
    ensemble_index,      \* the next value that range(30) yields at line 698
    panels,              \* the subplots drawn so far, by plot_index
    \* ---- linear_trend on the distributed scheduler (TrendSpec); positions
    \* are <<member, lat, lon>>, a block is one chunk of the array
    tpc,           \* the statement of the trend computation reached
    da_seed,       \* selects the values and the gaps of da
    da_chunks,     \* chunk sizes of da: [time, member_id, lat, lon]
    da_chunk,      \* chunk sizes of da_chunk (line 480), or <<>>
    n_workers,     \* number of workers of the cluster
    pending,       \* blocks whose task has not started
    running,       \* worker -> the block whose task it is running
    trend          \* the blocks of the result computed so far: position -> slope

runVars == <<pc, clusterState, clientState, adaptive, recommended, target,
             failedAt, completed, trace, firstRead>>

seasonVars == <<spc, t_20c_time, t_rcp_time, gistemp_time, seasons,
                winter_seasons, obs_seasons, obs_winter_seasons>>

fig2Vars == <<fpc, member_id, t_seed, ds_area, cell_area, total_area,
              t_ref_mean, t_20c_ts_df, t_rcp_ts_df, hadcrut_time, air_seed,
              wgts, obs_s, all_ts_anom>>

mapVars == <<epc, winter_trends, winter_trends_mean, obs_winter_trends,
             ensemble_index, panels>>

trendVars == <<tpc, da_seed, da_chunks, da_chunk, n_workers, pending, running,
               trend>>

vars == <<runVars, seasonVars, fig2Vars, mapVars, trendVars>>

\* the variables of the data pipelines, which the run leaves alone
dataVars == <<seasonVars, fig2Vars, mapVars, trendVars>>

-----------------------------------------------------------------------------
(* Exact arithmetic for the means: a value is a fraction n/d in lowest     *)
(* terms with d > 0, or NaN, written 0/0                                   *)

Abs(x) == IF x < 0 THEN 0 - x ELSE x

RECURSIVE Gcd(_, _)
Gcd(a, b) == IF b = 0 THEN a ELSE Gcd(b, a % b)

NaN == [n |-> 0, d |-> 0]
IsNaN(x) == x.d = 0

Rat(n, d) ==
    IF d = 0 THEN NaN
    ELSE LET g == Gcd(Abs(n), Abs(d))
             sgn == IF d < 0 THEN 0 - 1 ELSE 1
         IN [n |-> sgn * (n \div g), d |-> sgn * (d \div g)]

RatInt(k) == [n |-> k, d |-> 1]

RatAdd(x, y) ==
    IF IsNaN(x) \/ IsNaN(y) THEN NaN
    ELSE LET g == Gcd(x.d, y.d)
         IN Rat(x.n * (y.d \div g) + y.n * (x.d \div g), x.d * (y.d \div g))

RatNeg(x) == [n |-> 0 - x.n, d |-> x.d]
RatSub(x, y) == RatAdd(x, RatNeg(y))

RatMul(x, y) ==
    IF IsNaN(x) \/ IsNaN(y) THEN NaN
    ELSE LET a == Rat(x.n, y.d)
             b == Rat(y.n, x.d)
         IN [n |-> a.n * b.n, d |-> a.d * b.d]

\* x / y; 0/0 is NaN, as in numpy (no other division by zero arises here)
RatDiv(x, y) ==
    IF IsNaN(x) \/ IsNaN(y) \/ y.n = 0 THEN NaN
    ELSE RatMul(x, Rat(y.d, y.n))

Min(S) == CHOOSE x \in S : \A y \in S : x <= y
Max(S) == 0 - Min({0 - x : x \in S})

\* A sum that skips NaN (skipna=True, the default of .sum() and .mean() on
\* float data) is accumulated with the count of the values that entered it.
AggZero == [s |-> RatInt(0), c |-> 0]
AggOf(v) == IF IsNaN(v) THEN AggZero ELSE [s |-> v, c |-> 1]
AggAdd(x, y) == [s |-> RatAdd(x.s, y.s), c |-> x.c + y.c]

\* the accumulations h[i], i in S, lo <= i <= hi, added up by halving the range
RECURSIVE AggRange(_, _, _, _)
AggRange(h, S, lo, hi) ==
    IF lo > hi THEN AggZero
    ELSE IF lo = hi THEN (IF lo \in S THEN h[lo] ELSE AggZero)
    ELSE LET mid == (lo + hi) \div 2
             left == AggRange(h, S, lo, mid)
             right == AggRange(h, S, mid + 1, hi)
         IN AggAdd(left, right)

NanAgg(f, S) ==
    IF S = {} THEN AggZero
    ELSE AggRange([i \in S |-> AggOf(f[i])], S, Min(S), Max(S))

NanAgg2(f, A, B) ==
    IF A = {} THEN AggZero
    ELSE AggRange([a \in A |-> NanAgg([b \in B |-> f[<<a, b>>]], B)],
                  A, Min(A), Max(A))

\* sum of f over the set of integers S, skipping NaN; an empty or all-NaN
\* sum is 0
NanSum(f, S) == NanAgg(f, S).s

\* mean of f over the set of integers S, skipping NaN; NaN when nothing is left
NanMean(f, S) == LET a == NanAgg(f, S) IN RatDiv(a.s, RatInt(a.c))

\* sum and mean of f over the pairs A \X B, skipping NaN
NanSum2(f, A, B) == NanAgg2(f, A, B).s

NanMean2(f, A, B) == LET a == NanAgg2(f, A, B) IN RatDiv(a.s, RatInt(a.c))

-----------------------------------------------------------------------------
(* The notebook run                                                        *)

\* cluster.adapt(minimum=2, maximum=25, wait_count=60)
AdaptMinimum == 2
AdaptMaximum == 25

\* the largest raw recommendation the scheduler is made to issue
MaxRecommend == 27

\* no adaptive cycle has run yet
NoTarget == 0 - 1

\* The statements of the notebook in execution order.  kind:
\*   "lazy"  builds objects or task graphs, reads at most metadata
\*   "mat"   a materialisation call: .load(), .to_series(), .read()
\*   the other kinds are the cluster and client calls
Program ==
    << [name |-> "setup",                  line |-> 30,  kind |-> "lazy"],
       [name |-> "KubeCluster",            line |-> 70,  kind |-> "cluster"],
       [name |-> "cluster.adapt",          line |-> 71,  kind |-> "adapt"],
       [name |-> "Client",                 line |-> 73,  kind |-> "client"],
       [name |-> "open_esm_datastore",     line |-> 105, kind |-> "lazy"],
       [name |-> "col.unique",             line |-> 120, kind |-> "lazy"],
       [name |-> "col.df.head",            line |-> 131, kind |-> "lazy"],
       [name |-> "col.search",             line |-> 161, kind |-> "lazy"],
       [name |-> "to_dataset_dict",        line |-> 176, kind |-> "lazy"],
       [name |-> "ds_20C",                 line |-> 189, kind |-> "lazy"],
       [name |-> "nbytes",                 line |-> 202, kind |-> "lazy"],
       [name |-> "t_20c",                  line |-> 217, kind |-> "lazy"],
       [name |-> "t_ref",                  line |-> 231, kind |-> "lazy"],
       [name |-> "cell_area",              line |-> 252, kind |-> "lazy"],
       [name |-> "t_ref_ts",               line |-> 272, kind |-> "lazy"],
       [name |-> "t_ref_ts.load",          line |-> 301, kind |-> "mat"],
       [name |-> "t_20c_ts.to_series",     line |-> 312, kind |-> "mat"],
       [name |-> "t_rcp_ts.to_series",     line |-> 323, kind |-> "mat"],
       [name |-> "intake.Catalog",         line |-> 340, kind |-> "lazy"],
       [name |-> "HadCRUT4.to_dask",       line |-> 350, kind |-> "lazy"],
       [name |-> "def weighted_temporal_mean", line |-> 367, kind |-> "lazy"],
       [name |-> "obs_s",                  line |-> 388, kind |-> "mat"],
       [name |-> "all_ts_anom",            line |-> 398, kind |-> "lazy"],
       [name |-> "import pyplot",          line |-> 415, kind |-> "lazy"],
       [name |-> "figure 2",               line |-> 424, kind |-> "lazy"],
       [name |-> "def linear_trend",       line |-> 479, kind |-> "lazy"],
       [name |-> "seasons.load",           line |-> 520, kind |-> "mat"],
       [name |-> "winter_trends.load",     line |-> 532, kind |-> "mat"],
       [name |-> "assert 34",              line |-> 551, kind |-> "lazy"],
       [name |-> "gistemp.read",           line |-> 571, kind |-> "mat"],
       [name |-> "assign_coords",          line |-> 581, kind |-> "lazy"],
       [name |-> "obs_seasons.load",       line |-> 598, kind |-> "mat"],
       [name |-> "tempanomaly.plot",       line |-> 615, kind |-> "lazy"],
       [name |-> "obs_winter_trends.load", line |-> 624, kind |-> "mat"],
       [name |-> "contour_levels",         line |-> 643, kind |-> "lazy"],
       [name |-> "def make_map_plot",      line |-> 658, kind |-> "lazy"],
       [name |-> "figure 4",               line |-> 686, kind |-> "lazy"],
       [name |-> "client.close",           line |-> 740, kind |-> "client.close"],
       [name |-> "cluster.close",          line |-> 741, kind |-> "cluster.close"] >>

Done == Len(Program) + 1

StepOf(n) == CHOOSE i \in 1..Len(Program) : Program[i].name = n

\* as Materialises, with the area sum of line 253 computed eagerly
MaterialisesEagerSum(i) ==
    Program[i].kind = "mat" \/ Program[i].name = "cell_area"

\* Does executing the statement request the bulk data?  Everything xarray,
\* intake-esm and dask do before .load()/.to_series()/.read() is deferred.
Materialises(i) == Program[i].kind = "mat"

\* as CanRun, for a runner that goes on to the next statement after a raise
CanRunAfterError == pc < Done

\* After an exception nothing runs: there is no try/except, retry or
\* fallback in any cell, so the first raise ends the run.
CanRun == failedAt = 0 /\ pc < Done

\* as SafeTarget, without the clip to the maximum
SafeTargetNoMaximum(n) == IF n < AdaptMinimum THEN AdaptMinimum ELSE n

\* AdaptiveCore.safe_target: the raw recommendation clipped to the configured
\* minimum and maximum.
SafeTarget(n) ==
    IF n > AdaptMaximum THEN AdaptMaximum
    ELSE IF n < AdaptMinimum THEN AdaptMinimum
    ELSE n

Advance(i) ==
    /\ pc' = i + 1
    /\ completed' = completed \cup {i}
    /\ failedAt' = failedAt

RunInit ==
    /\ pc = 1
    /\ clusterState = "none"
    /\ clientState = "none"
    /\ adaptive = FALSE
    /\ recommended = NoTarget
    /\ target = NoTarget
    /\ failedAt = 0
    /\ completed = {}
    /\ trace = << >>
    /\ firstRead = 0

\* cluster = KubeCluster()
CreateCluster ==
    /\ CanRun /\ Program[pc].kind = "cluster"
    /\ clusterState' = "open"
    /\ trace' = Append(trace, "cluster")
    /\ Advance(pc)
    /\ UNCHANGED <<clientState, adaptive, recommended, target, firstRead>>
    /\ UNCHANGED dataVars

\* cluster.adapt(minimum=2, maximum=25, wait_count=60)
ConfigureAdapt ==
    /\ CanRun /\ Program[pc].kind = "adapt"
    /\ adaptive' = TRUE
    /\ trace' = Append(trace, "adapt")
    /\ Advance(pc)
    /\ UNCHANGED <<clusterState, clientState, recommended, target, firstRead>>
    /\ UNCHANGED dataVars

\* client = Client(cluster)
ConnectClient ==
    /\ CanRun /\ Program[pc].kind = "client"
    /\ clientState' = "open"
    /\ trace' = Append(trace, "client")
    /\ Advance(pc)
    /\ UNCHANGED <<clusterState, adaptive, recommended, target, firstRead>>
    /\ UNCHANGED dataVars

\* a cell that only builds objects
LazyStep ==
    /\ CanRun /\ Program[pc].kind = "lazy"
    /\ firstRead' = IF firstRead = 0 /\ Materialises(pc) THEN pc ELSE firstRead
    /\ Advance(pc)
    /\ UNCHANGED <<clusterState, clientState, adaptive, recommended, target, trace>>
    /\ UNCHANGED dataVars

\* a cell with a .load(), .to_series() or .read()
MaterialiseStep ==
    /\ CanRun /\ Program[pc].kind = "mat"
    /\ firstRead' = IF firstRead = 0 /\ Materialises(pc) THEN pc ELSE firstRead
    /\ trace' = Append(trace, "mat")
    /\ Advance(pc)
    /\ UNCHANGED <<clusterState, clientState, adaptive, recommended, target>>
    /\ UNCHANGED dataVars

\* client.close()
CloseClient ==
    /\ CanRun /\ Program[pc].kind = "client.close"
    /\ clientState' = "closed"
    /\ trace' = Append(trace, "client.close")
    /\ Advance(pc)
    /\ UNCHANGED <<clusterState, adaptive, recommended, target, firstRead>>
    /\ UNCHANGED dataVars

\* as CloseCluster, with the cluster.close() line left out of the last cell
CloseClusterOmitted ==
    /\ CanRun /\ Program[pc].kind = "cluster.close"
    /\ Advance(pc)
    /\ UNCHANGED <<clusterState, clientState, adaptive, recommended, target,
                   trace, firstRead>>
    /\ UNCHANGED dataVars

\* cluster.close(): the cluster stops and its adaptive callback with it
CloseCluster ==
    /\ CanRun /\ Program[pc].kind = "cluster.close"
    /\ clusterState' = "closed"
    /\ adaptive' = FALSE
    /\ trace' = Append(trace, "cluster.close")
    /\ Advance(pc)
    /\ UNCHANGED <<clientState, recommended, target, firstRead>>
    /\ UNCHANGED dataVars

\* the statement at pc raises: the exception leaves the cell and the run
\* stops there, the statement having had no effect
Raise ==
    /\ CanRun
    /\ failedAt' = pc
    /\ UNCHANGED <<pc, clusterState, clientState, adaptive, recommended,
                   target, completed, trace, firstRead>>
    /\ UNCHANGED dataVars

\* one cycle of the cluster's adaptive callback, which runs in the
\* background from cluster.adapt until the cluster closes.  wait_count only
\* delays the retirement of workers; it does not enter the target.
AdaptCycle ==
    /\ adaptive /\ clusterState = "open"
    /\ \E n \in 0..MaxRecommend :
          /\ recommended' = n
          /\ target' = SafeTarget(n)
    /\ UNCHANGED <<pc, clusterState, clientState, adaptive, failedAt,
                   completed, trace, firstRead>>
    /\ UNCHANGED dataVars

RunNext ==
    \/ CreateCluster
    \/ ConfigureAdapt
    \/ ConnectClient
    \/ LazyStep
    \/ MaterialiseStep
    \/ CloseClient
    \/ CloseCluster
    \/ Raise
    \/ AdaptCycle

NoSeasons ==
    /\ spc = "idle"
    /\ gistemp_time = {}
    /\ seasons = << >> /\ winter_seasons = << >>
    /\ obs_seasons = << >> /\ obs_winter_seasons = << >>

SeasonIdle == NoSeasons /\ t_20c_time = {} /\ t_rcp_time = {}

Fig2Idle ==
    /\ fpc = "idle"
    /\ member_id = {} /\ t_seed = 0 /\ ds_area = << >>
    /\ cell_area = << >> /\ total_area = 0
    /\ t_ref_mean = NaN /\ t_20c_ts_df = << >> /\ t_rcp_ts_df = << >>
    /\ hadcrut_time = {} /\ air_seed = 0 /\ wgts = << >>
    /\ obs_s = << >> /\ all_ts_anom = << >>

MapIdle ==
    /\ epc = "idle"
    /\ winter_trends = << >> /\ winter_trends_mean = << >>
    /\ obs_winter_trends = << >>
    /\ ensemble_index = 0 /\ panels = << >>

TrendIdle ==
    /\ tpc = "idle"
    /\ da_seed = 0
    /\ da_chunks = <<>>
    /\ da_chunk = <<>>
    /\ n_workers = 0
    /\ pending = {}
    /\ running = <<>>
    /\ trend = <<>>

Init == RunInit /\ SeasonIdle /\ Fig2Idle /\ MapIdle /\ TrendIdle

Next == RunNext

Spec == Init /\ [][Next]_vars

-----------------------------------------------------------------------------
(* Properties of the notebook run                                          *)

LoadRefStep == StepOf("t_ref_ts.load")

\* C4: execution is lazy up to t_ref_mean = t_ref_ts.load(): no statement
\* before it reads bulk data, and the first read is that load call.
C4_LazyUntilLoad ==
    /\ pc <= LoadRefStep => firstRead = 0
    /\ firstRead # 0 => firstRead = LoadRefStep

C4_Witness == firstRead = LoadRefStep /\ pc = LoadRefStep + 1

\* C5: from cluster.adapt(minimum=2, maximum=25) until cluster.close() the
\* autoscaler's target worker count stays within 2..25, whatever the
\* scheduler recommends.
C5_TargetInRange ==
    (adaptive /\ target # NoTarget) => target \in 2..25

C5_Witness == adaptive /\ recommended > 25 /\ target = 25

MatCount == Cardinality({i \in 1..Len(Program) : Program[i].kind = "mat"})

ExpectedTrace ==
    <<"cluster", "adapt", "client">> \o [i \in 1..MatCount |-> "mat"]
        \o <<"client.close", "cluster.close">>

IsPrefix(s, t) == Len(s) <= Len(t) /\ \A i \in 1..Len(s) : s[i] = t[i]

\* C6: the events of a run come in the order cluster created, adaptive
\* scaling configured, client connected, the materialisations, client.close,
\* cluster.close; a run in which nothing raises ends with all of them done
\* and both client and cluster closed.
C6_Order ==
    /\ IsPrefix(trace, ExpectedTrace)
    /\ (pc = Done /\ failedAt = 0) =>
          /\ trace = ExpectedTrace
          /\ clientState = "closed"
          /\ clusterState = "closed"

C6_Witness == pc = Done /\ failedAt = 0 /\ trace = ExpectedTrace

\* C7 as stated: once a call has raised, neither close has been executed
\* and the client and the cluster are open.
C7_StayOpen ==
    failedAt # 0 =>
        /\ clientState = "open"
        /\ clusterState = "open"
        /\ \A i \in 1..Len(trace) : trace[i] \notin {"client.close", "cluster.close"}

\* the run is frozen at the statement that raised
Halted ==
    /\ pc' = pc
    /\ failedAt' = failedAt
    /\ completed' = completed
    /\ trace' = trace
    /\ firstRead' = firstRead
    /\ clientState' = clientState
    /\ clusterState' = clusterState

\* C7, amended: once a call has raised, the statement is not retried and
\* never completes, no later statement runs, and no close call that had not
\* run is executed: the cluster is open if the failure came after
\* KubeCluster() and before cluster.close(), and the client is open if it
\* came after Client(cluster) and before client.close().
C7_ErrorHaltsRun ==
    /\ [](failedAt # 0 =>
            /\ pc = failedAt
            /\ failedAt \notin completed
            /\ (StepOf("KubeCluster") < failedAt /\ failedAt < StepOf("cluster.close")
                    => clusterState = "open")
            /\ (StepOf("Client") < failedAt /\ failedAt < StepOf("client.close")
                    => clientState = "open"))
    /\ [][failedAt # 0 => Halted]_vars

C7_Witness ==
    /\ failedAt = StepOf("seasons.load")
    /\ clientState = "open" /\ clusterState = "open"
    /\ target = AdaptMaximum

-----------------------------------------------------------------------------
(* Time axes and seasonal resampling (Figure 4)                            *)

\* A time stamp is the index of its calendar month.
MonthIndex(y, m) == y * 12 + (m - 1)
Year(t) == t \div 12
Month(t) == (t % 12) + 1

\* the years of the slices in lines 521 and 523 (ensemble) and 598 and 600
\* (observations)
SeasonsFrom == 1979
SeasonsTo == 2012
FullSeasonsFrom == 1979
FullSeasonsTo == 2012
ObsSeasonsFrom == 1979
ObsSeasonsTo == 2012
ObsFullSeasonsFrom == 1979
ObsFullSeasonsTo == 2012
\* the month kept by time.dt.month == 12 (lines 533 and 604)
WinterMonth == 12
\* assert len(winter_seasons.time) == 34
ExpectedSeasons == 34

\* months of data the inputs hold before January 1979 and after December 2012
PadMonths == 2
\* the 20C record ends in a December up to SplitSpan years before 2012, and
\* the RCP8.5 record starts the month after
SplitSpan == 3

\* xr.concat([a, b], dim="time")
Concat(a, b) == a \cup b

\* .sel(time=slice(str(y0), str(y1))) on a time axis: both years inclusive
SelTime(times, y0, y1) == {t \in times : y0 <= Year(t) /\ Year(t) <= y1}

\* the start of the quarter (December, March, June, September) holding t
SeasonLabel(t) == t - (Month(t) % 3)

\* .resample(time="QS-DEC").mean("time"): one season per quarter from the
\* quarter of the first time stamp to that of the last, labelled by the
\* quarter's first month, averaging the time stamps that fall in it
Resample(times) ==
    IF times = {} THEN << >>
    ELSE LET first == SeasonLabel(Min(times))
             last == SeasonLabel(Max(times))
             labels == {l \in first..last : Month(l) % 3 = 0}
         IN [l \in labels |-> times \cap {l, l + 1, l + 2}]

\* as SelLabels, with the selection left out
SelLabelsAll(ds, y0, y1) == ds

\* .sel(time=slice(str(y0), str(y1))) on a resampled dataset: selects on the
\* season labels
SelLabels(ds, y0, y1) ==
    [l \in {k \in DOMAIN ds : y0 <= Year(k) /\ Year(k) <= y1} |-> ds[l]]

\* ds.sel(time=ds.time.where(ds.time.dt.month == 12, drop=True))
Winter(ds) == [l \in {k \in DOMAIN ds : Month(k) = WinterMonth} |-> ds[l]]

SeasonInit ==
    /\ spc = "start"
    /\ \E a \in 0..PadMonths, b \in 0..PadMonths, k \in 1..SplitSpan :
          /\ t_20c_time = (MonthIndex(SeasonsFrom, 1) - a)..MonthIndex(SeasonsTo - k, 12)
          /\ t_rcp_time = MonthIndex(SeasonsTo - k + 1, 1)..(MonthIndex(SeasonsTo, 12) + b)
    /\ \E a \in 0..PadMonths, b \in 0..PadMonths :
          gistemp_time = (MonthIndex(ObsSeasonsFrom, 1) - a)..(MonthIndex(ObsSeasonsTo, 12) + b)
    /\ seasons = << >> /\ winter_seasons = << >>
    /\ obs_seasons = << >> /\ obs_winter_seasons = << >>

\* t = xr.concat([t_20c, t_rcp], dim="time")
\* seasons = t.sel(time=slice("1979", "2012")).resample(time="QS-DEC").mean("time")
ResampleSeasons ==
    /\ spc = "start"
    /\ seasons' = Resample(SelTime(Concat(t_20c_time, t_rcp_time), SeasonsFrom, SeasonsTo))
    /\ spc' = "resampled"
    /\ UNCHANGED <<t_20c_time, t_rcp_time, gistemp_time, winter_seasons,
                   obs_seasons, obs_winter_seasons>>
    /\ UNCHANGED <<runVars, fig2Vars, mapVars, trendVars>>

\* seasons = seasons.sel(time=slice("1979", "2012")).load()
SelectSeasons ==
    /\ spc = "resampled"
    /\ seasons' = SelLabels(seasons, FullSeasonsFrom, FullSeasonsTo)
    /\ spc' = "selected"
    /\ UNCHANGED <<t_20c_time, t_rcp_time, gistemp_time, winter_seasons,
                   obs_seasons, obs_winter_seasons>>
    /\ UNCHANGED <<runVars, fig2Vars, mapVars, trendVars>>

\* winter_seasons = seasons.sel(time=seasons.time.where(... == 12, drop=True))
WinterSeasons ==
    /\ spc = "selected"
    /\ winter_seasons' = Winter(seasons)
    /\ spc' = "winter"
    /\ UNCHANGED <<t_20c_time, t_rcp_time, gistemp_time, seasons,
                   obs_seasons, obs_winter_seasons>>
    /\ UNCHANGED <<runVars, fig2Vars, mapVars, trendVars>>

\* assert len(winter_seasons.time) == 34
AssertSeasons ==
    /\ spc = "winter"
    /\ spc' = IF Cardinality(DOMAIN winter_seasons) = ExpectedSeasons
               THEN "asserted" ELSE "AssertionError"
    /\ UNCHANGED <<t_20c_time, t_rcp_time, gistemp_time, seasons, winter_seasons,
                   obs_seasons, obs_winter_seasons>>
    /\ UNCHANGED <<runVars, fig2Vars, mapVars, trendVars>>

\* obs_seasons = ds.sel(time=slice("1979", "2012")).resample(time="QS-DEC").mean("time")
ResampleObsSeasons ==
    /\ spc = "asserted"
    /\ obs_seasons' = Resample(SelTime(gistemp_time, ObsSeasonsFrom, ObsSeasonsTo))
    /\ spc' = "obs_resampled"
    /\ UNCHANGED <<t_20c_time, t_rcp_time, gistemp_time, seasons, winter_seasons,
                   obs_winter_seasons>>
    /\ UNCHANGED <<runVars, fig2Vars, mapVars, trendVars>>

\* obs_seasons = obs_seasons.sel(time=slice("1979", "2012")).load()
SelectObsSeasons ==
    /\ spc = "obs_resampled"
    /\ obs_seasons' = SelLabels(obs_seasons, ObsFullSeasonsFrom, ObsFullSeasonsTo)
    /\ spc' = "obs_selected"
    /\ UNCHANGED <<t_20c_time, t_rcp_time, gistemp_time, seasons, winter_seasons,
                   obs_winter_seasons>>
    /\ UNCHANGED <<runVars, fig2Vars, mapVars, trendVars>>

\* obs_winter_seasons = obs_seasons.sel(time=obs_seasons.time.where(...))
WinterObsSeasons ==
    /\ spc = "obs_selected"
    /\ obs_winter_seasons' = Winter(obs_seasons)
    /\ spc' = "obs_winter"
    /\ UNCHANGED <<t_20c_time, t_rcp_time, gistemp_time, seasons, winter_seasons,
                   obs_seasons>>
    /\ UNCHANGED <<runVars, fig2Vars, mapVars, trendVars>>

SeasonNext ==
    \/ ResampleSeasons
    \/ SelectSeasons
    \/ WinterSeasons
    \/ AssertSeasons
    \/ ResampleObsSeasons
    \/ SelectObsSeasons
    \/ WinterObsSeasons

SeasonSpecInit == RunInit /\ SeasonInit /\ Fig2Idle /\ MapIdle /\ TrendIdle

SeasonSpec == SeasonSpecInit /\ [][SeasonNext]_vars

\* C1: the pipeline 'select 1979..2012, resample QS-DEC, select 1979..2012 on
\* the season labels, keep the seasons labelled December' yields exactly 34
\* winter seasons for a series covering January 1979 to December 2012, for
\* the ensemble and for the observations, and the assertion does not fail.
C1_ThirtyFourWinters ==
    /\ spc # "AssertionError"
    /\ spc \notin {"start", "resampled", "selected"}
          => Cardinality(DOMAIN winter_seasons) = 34
    /\ spc = "obs_winter" => Cardinality(DOMAIN obs_winter_seasons) = 34

C1_Witness ==
    /\ spc = "obs_winter"
    /\ DOMAIN winter_seasons = {MonthIndex(y, 12) : y \in 1979..2012}
    /\ DOMAIN obs_winter_seasons = {MonthIndex(y, 12) : y \in 1979..2012}
    /\ Min(t_20c_time) < MonthIndex(1979, 1)
    /\ Max(gistemp_time) > MonthIndex(2012, 12)

FullSeason(ds, l) == ds[l] = {l, l + 1, l + 2}

\* C2: after the second selection only full seasons remain: every retained
\* season, of the ensemble and of the observations, is the mean over all
\* three calendar months of the season.
C2_OnlyFullSeasons ==
    /\ spc \notin {"start", "resampled"}
          => \A l \in DOMAIN seasons : FullSeason(seasons, l)
    /\ spc \in {"obs_selected", "obs_winter"}
          => \A l \in DOMAIN obs_seasons : FullSeason(obs_seasons, l)

-----------------------------------------------------------------------------
(* The global mean temperature series of Figure 2                          *)

\* t_ref = t_20c.sel(time=slice("1961", "1990"))
RefFrom == 1961
RefTo == 1990

\* number of grid cells (lat x lon flattened)
NCells == 2
\* largest number of ensemble members
MaxMembers == 2
\* the data seeds run over 0..MaxSeed
MaxSeed == 1
\* cell c has area 1 + g * (c - 1) for a g in 0..MaxAreaStep
MaxAreaStep == 1
\* years of 20C data before 1961 and after 1990, and years of RCP8.5 data
PadYears == 1
\* years of HadCRUT4 data, and months it may lack at either end
ObsYears == 2
ObsPad == 2

Cells == 1..NCells

\* ds_20C["TREFHT"] and ds_RCP85["TREFHT"] at member m, month t, cell c
T20c(m, t, c) == (Year(t) % 7) * (t_seed + 1) + (Month(t) % 3) * c + m
TRcp(m, t, c) == 1 + T20c(m, t, c)

\* TREFHT of experiment x: "20C" or "RCP85"
TREFHT(x, m, t, c) == IF x = "20C" THEN T20c(m, t, c) ELSE TRcp(m, t, c)

YearsOf(times) == {Year(t) : t \in times}

\* the time stamps of year y
InYear(times, y) == {t \in MonthIndex(y, 1)..MonthIndex(y, 12) : t \in times}

\* x.resample(time="AS").mean("time") at member m, year y, cell c
AnnualMean(x, times, m, y, c) ==
    LET ts == InYear(times, y)
    IN NanMean([t \in ts |-> RatInt(TREFHT(x, m, t, c))], ts)

\* ((x.resample(time="AS").mean("time") * cell_area).sum(dim=("lat", "lon")))
\*     / total_area
AreaMean(x, times, m, y) ==
    RatDiv(NanSum([c \in Cells |->
                      RatMul(AnnualMean(x, times, m, y, c), RatInt(cell_area[c]))],
                  Cells),
           RatInt(total_area))

\* as TRefTime, with the end of the slice taken as exclusive
TRefTimeExclusive == {t \in t_20c_time : RefFrom <= Year(t) /\ Year(t) < RefTo}

\* the time axis of t_ref = t_20c.sel(time=slice("1961", "1990"))
TRefTime == SelTime(t_20c_time, RefFrom, RefTo)

\* t_ref_ts: the area mean of t_ref, averaged over dim=("time", "member_id")
TRefTs ==
    LET years == YearsOf(TRefTime)
    IN NanMean2([k \in years \X member_id |-> AreaMean("20C", TRefTime, k[2], k[1])],
                years, member_id)

\* t_20c_ts and t_rcp_ts, keyed by <<year, member>>
T20cTs ==
    [k \in YearsOf(t_20c_time) \X member_id |->
        AreaMean("20C", t_20c_time, k[2], k[1])]

TRcpTs ==
    [k \in YearsOf(t_rcp_time) \X member_id |->
        AreaMean("RCP85", t_rcp_time, k[2], k[1])]

\* pd.concat([a, b]): the rows of a followed by the rows of b
ConcatFrames(a, b) ==
    [k \in DOMAIN a \cup DOMAIN b |-> IF k \in DOMAIN a THEN a[k] ELSE b[k]]

\* ---- observations: weighted_temporal_mean(ds)

IsLeap(y) == (y % 4 = 0 /\ y % 100 # 0) \/ y % 400 = 0

\* ds.time_bnds.diff(dim="nbnds")[:, 0]: the length in days of month t
TimeBoundDiff(t) ==
    IF Month(t) = 2 THEN (IF IsLeap(Year(t)) THEN 29 ELSE 28)
    ELSE IF Month(t) \in {4, 6, 9, 11} THEN 30 ELSE 31

\* ds["air"] at month t, cell c: NaN where the cell has no observation
Air(t, c) ==
    IF air_seed % 2 = 1 /\ c = 1 /\ Month(t) <= 2 THEN NaN
    ELSE RatInt((Month(t) + c * (air_seed + 1) + Year(t)) % 4)

\* as Wgts, dividing by the sum over the whole record instead of the year's
WgtsOverRecord(times) ==
    LET total == NanSum([u \in times |-> RatInt(TimeBoundDiff(u))], times)
    IN [t \in times |-> RatDiv(RatInt(TimeBoundDiff(t)), total)]

\* wgts = time_bound_diff.groupby("time.year")
\*            / time_bound_diff.groupby("time.year").sum(xr.ALL_DIMS)
Wgts(times) ==
    LET year_sum == [y \in YearsOf(times) |->
                        NanSum([u \in InYear(times, y) |-> RatInt(TimeBoundDiff(u))],
                               InYear(times, y))]
    IN [t \in times |-> RatDiv(RatInt(TimeBoundDiff(t)), year_sum[Year(t)])]

\* wgts.groupby("time.year").sum(xr.ALL_DIMS)
YearWeightSums(w) ==
    [y \in YearsOf(DOMAIN w) |-> NanSum(w, InYear(DOMAIN w, y))]

\* np.testing.assert_allclose(wgts.groupby("time.year").sum(xr.ALL_DIMS), 1.0)
WeightsAssertHolds(w) ==
    LET sums == YearWeightSums(w)
    IN \A y \in DOMAIN sums : sums[y] = RatInt(1)

\* obs_sum = (obs * wgts).resample(time="AS").sum(dim="time")
ObsSum(w, y, c) ==
    LET ts == InYear(DOMAIN w, y)
    IN NanSum([t \in ts |-> RatMul(Air(t, c), w[t])], ts)

\* ones_out = (ones * wgts).resample(time="AS").sum(dim="time"), with
\* ones = xr.where(obs.isnull(), 0.0, 1.0)
OnesOut(w, y, c) ==
    LET ts == InYear(DOMAIN w, y)
    IN NanSum([t \in ts |->
                  RatMul(IF IsNaN(Air(t, c)) THEN RatInt(0) ELSE RatInt(1), w[t])],
              ts)

\* obs_sum / ones_out: the day-weighted annual mean of cell c
ObsAnnual(w, y, c) == RatDiv(ObsSum(w, y, c), OnesOut(w, y, c))

\* obs_s = (obs_sum / ones_out).mean(("lat", "lon")).to_series()
ObsS(w) ==
    [y \in YearsOf(DOMAIN w) |->
        NanMean([c \in Cells |-> ObsAnnual(w, y, c)], Cells)]

Fig2Init ==
    /\ fpc = "start"
    /\ \E n \in 1..MaxMembers : member_id = 1..n
    /\ t_seed \in 0..MaxSeed
    /\ \E g \in 0..MaxAreaStep : ds_area = [c \in Cells |-> 1 + g * (c - 1)]
    /\ t_20c_time = MonthIndex(RefFrom - PadYears, 1)..MonthIndex(RefTo + PadYears, 12)
    /\ t_rcp_time = MonthIndex(RefTo + PadYears + 1, 1)
                        ..MonthIndex(RefTo + 2 * PadYears, 12)
    /\ cell_area = << >> /\ total_area = 0
    /\ t_ref_mean = NaN /\ t_20c_ts_df = << >> /\ t_rcp_ts_df = << >>
    /\ hadcrut_time = {} /\ air_seed = 0 /\ wgts = << >>
    /\ obs_s = << >> /\ all_ts_anom = << >>

\* cell_area = ds_20C.area; total_area = cell_area.sum()
CellArea ==
    /\ fpc = "start"
    /\ cell_area' = ds_area
    /\ total_area' = NanSum([c \in Cells |-> RatInt(ds_area[c])], Cells).n
    /\ fpc' = "cell_area"
    /\ UNCHANGED <<member_id, t_seed, ds_area, t_ref_mean, t_20c_ts_df,
                   t_rcp_ts_df, hadcrut_time, air_seed, wgts, obs_s, all_ts_anom>>
    /\ UNCHANGED <<runVars, seasonVars, mapVars, trendVars>>

\* t_ref_mean = t_ref_ts.load()
LoadRef ==
    /\ fpc = "cell_area"
    /\ t_ref_mean' = TRefTs
    /\ fpc' = "t_ref_mean"
    /\ UNCHANGED <<member_id, t_seed, ds_area, cell_area, total_area, t_20c_ts_df,
                   t_rcp_ts_df, hadcrut_time, air_seed, wgts, obs_s, all_ts_anom>>
    /\ UNCHANGED <<runVars, seasonVars, mapVars, trendVars>>

\* t_20c_ts_df = t_20c_ts.to_series().unstack().T
Load20c ==
    /\ fpc = "t_ref_mean"
    /\ t_20c_ts_df' = T20cTs
    /\ fpc' = "t_20c_ts_df"
    /\ UNCHANGED <<member_id, t_seed, ds_area, cell_area, total_area, t_ref_mean,
                   t_rcp_ts_df, hadcrut_time, air_seed, wgts, obs_s, all_ts_anom>>
    /\ UNCHANGED <<runVars, seasonVars, mapVars, trendVars>>

\* t_rcp_ts_df = t_rcp_ts.to_series().unstack().T
LoadRcp ==
    /\ fpc = "t_20c_ts_df"
    /\ t_rcp_ts_df' = TRcpTs
    /\ fpc' = "t_rcp_ts_df"
    /\ UNCHANGED <<member_id, t_seed, ds_area, cell_area, total_area, t_ref_mean,
                   t_20c_ts_df, hadcrut_time, air_seed, wgts, obs_s, all_ts_anom>>
    /\ UNCHANGED <<runVars, seasonVars, mapVars, trendVars>>

\* ds = cat.HadCRUT4.to_dask(): a monthly record, whole or lacking up to
\* ObsPad months at either end
OpenHadCRUT4 ==
    /\ fpc = "t_rcp_ts_df"
    /\ \E a \in 0..ObsPad, b \in 0..ObsPad :
          hadcrut_time' = (MonthIndex(RefFrom - PadYears, 1) + a)
                              ..(MonthIndex(RefFrom - PadYears + ObsYears - 1, 12) - b)
    /\ air_seed' \in 0..MaxSeed
    /\ fpc' = "ds"
    /\ UNCHANGED <<member_id, t_seed, ds_area, cell_area, total_area, t_ref_mean,
                   t_20c_ts_df, t_rcp_ts_df, wgts, obs_s, all_ts_anom>>
    /\ UNCHANGED <<runVars, seasonVars, mapVars, trendVars>>

\* obs_s = weighted_temporal_mean(ds)
WeightedTemporalMean ==
    /\ fpc = "ds"
    /\ wgts' = Wgts(hadcrut_time)
    /\ IF WeightsAssertHolds(wgts')
          THEN fpc' = "obs_s" /\ obs_s' = ObsS(wgts')
          ELSE fpc' = "AssertionError" /\ obs_s' = obs_s
    /\ UNCHANGED <<member_id, t_seed, ds_area, cell_area, total_area, t_ref_mean,
                   t_20c_ts_df, t_rcp_ts_df, hadcrut_time, air_seed, all_ts_anom>>
    /\ UNCHANGED <<runVars, seasonVars, mapVars, trendVars>>

\* all_ts_anom = pd.concat([t_20c_ts_df, t_rcp_ts_df]) - t_ref_mean.data
Anomaly ==
    /\ fpc = "obs_s"
    /\ all_ts_anom' =
          LET all_ts == ConcatFrames(t_20c_ts_df, t_rcp_ts_df)
          IN [k \in DOMAIN all_ts |-> RatSub(all_ts[k], t_ref_mean)]
    /\ fpc' = "all_ts_anom"
    /\ UNCHANGED <<member_id, t_seed, ds_area, cell_area, total_area, t_ref_mean,
                   t_20c_ts_df, t_rcp_ts_df, hadcrut_time, air_seed, wgts, obs_s>>
    /\ UNCHANGED <<runVars, seasonVars, mapVars, trendVars>>

Fig2Next ==
    \/ CellArea
    \/ LoadRef
    \/ Load20c
    \/ LoadRcp
    \/ OpenHadCRUT4
    \/ WeightedTemporalMean
    \/ Anomaly

Fig2SpecInit == RunInit /\ NoSeasons /\ Fig2Init /\ MapIdle /\ TrendIdle

Fig2Spec == Fig2SpecInit /\ [][Fig2Next]_vars

\* C3: the weights of weighted_temporal_mean, each the length of the month's
\* time bounds over the sum of those lengths in the month's calendar year,
\* sum to 1 within every calendar year of the data, so that the
\* assert_allclose check does not fail.
C3_WeightsSumToOne ==
    /\ fpc # "AssertionError"
    /\ fpc \in {"obs_s", "all_ts_anom"} =>
          /\ DOMAIN wgts = hadcrut_time
          /\ \A y \in YearsOf(hadcrut_time) :
                LET ts == InYear(hadcrut_time, y)
                    days == NanSum([t \in ts |-> RatInt(TimeBoundDiff(t))], ts)
                IN /\ \A t \in ts : RatMul(wgts[t], days) = RatInt(TimeBoundDiff(t))
                   /\ NanSum(wgts, ts) = RatInt(1)

C3_Witness ==
    /\ fpc = "obs_s"
    /\ Month(Min(hadcrut_time)) # 1
    /\ Month(Max(hadcrut_time)) # 12
    /\ \E t \in hadcrut_time : TimeBoundDiff(t) = 29
    /\ \E t \in hadcrut_time : wgts[t].d < 365

\* the area of each cell of the HadCRUT4 grid: a regular latitude-longitude
\* grid, whose cells differ in size from one latitude to the next
ObsCellArea == [c \in Cells |-> c]

\* the sum over all cells of value times cell area, over the total area
AreaWeighted(value, area) ==
    RatDiv(NanSum([c \in Cells |-> RatMul(value[c], RatInt(area[c]))], Cells),
           NanSum([c \in Cells |-> RatInt(area[c])], Cells))

\* the three ensemble series of Figure 2 are area-weighted means
EnsembleAreaWeighted ==
    /\ fpc \notin {"start", "cell_area"} =>
          t_ref_mean =
              NanMean2([k \in (1961..1990) \X member_id |->
                           AreaWeighted([c \in Cells |->
                               AnnualMean("20C", t_20c_time, k[2], k[1], c)], ds_area)],
                       1961..1990, member_id)
    /\ fpc \notin {"start", "cell_area", "t_ref_mean"} =>
          \A k \in DOMAIN t_20c_ts_df :
              t_20c_ts_df[k] =
                  AreaWeighted([c \in Cells |->
                      AnnualMean("20C", t_20c_time, k[2], k[1], c)], ds_area)
    /\ fpc \notin {"start", "cell_area", "t_ref_mean", "t_20c_ts_df"} =>
          \A k \in DOMAIN t_rcp_ts_df :
              t_rcp_ts_df[k] =
                  AreaWeighted([c \in Cells |->
                      AnnualMean("RCP85", t_rcp_time, k[2], k[1], c)], ds_area)

\* C8: every global mean series of Figure 2 (the 1961-90 reference, the 20C
\* and RCP8.5 members, the observations) is, for each year, the sum over all
\* cells of value times cell area divided by the total area.
C8_AllSeriesAreaWeighted ==
    /\ EnsembleAreaWeighted
    /\ fpc \in {"obs_s", "all_ts_anom"} =>
          \A y \in DOMAIN obs_s :
              obs_s[y] = AreaWeighted([c \in Cells |-> ObsAnnual(wgts, y, c)],
                                      ObsCellArea)

\* C9: the anomaly of Figure 2 is relative to the 1961-90 base period: one
\* scalar, the mean over all members and the 30 years 1961..1990 of the 20C
\* global mean, is subtracted from every member and year of the concatenated
\* 20C and RCP8.5 series, so the anomalies average to zero over all members
\* and the years 1961..1990.
C9_AnomalyBase ==
    fpc = "all_ts_anom" =>
        /\ YearsOf(TRefTime) = 1961..1990
        /\ Cardinality(YearsOf(TRefTime)) = 30
        /\ t_ref_mean = NanMean2(t_20c_ts_df, 1961..1990, member_id)
        /\ DOMAIN all_ts_anom =
              (YearsOf(t_20c_time) \cup YearsOf(t_rcp_time)) \X member_id
        /\ \A k \in DOMAIN t_20c_ts_df :
              all_ts_anom[k] = RatSub(t_20c_ts_df[k], t_ref_mean)
        /\ \A k \in DOMAIN t_rcp_ts_df :
              all_ts_anom[k] = RatSub(t_rcp_ts_df[k], t_ref_mean)
        /\ NanMean2(all_ts_anom, 1961..1990, member_id) = RatInt(0)

C9_Witness ==
    /\ fpc = "all_ts_anom"
    /\ Cardinality(member_id) = MaxMembers
    /\ ds_area[1] # ds_area[NCells]
    /\ t_ref_mean.d # 1
    /\ \E k \in DOMAIN t_rcp_ts_df : all_ts_anom[k].n > 0
    /\ \E k \in DOMAIN t_20c_ts_df : all_ts_anom[k].n < 0

-----------------------------------------------------------------------------
(* The ensemble mean and the member panels of Figure 4                     *)

\* winter_trends.isel(member_id=range(30))
MeanMembers == 30
\* for ensemble_index in range(30)
PanelMembers == 30
\* plot indexes of the ensemble mean and of the observations (lines 710, 715)
MeanPlotIndex == 31
ObsPlotIndex == 32

\* members the ensemble holds beyond the first 30
MaxExtraMembers == 2

\* str(n) for n >= 0: the decimal digits of n
Digit(k) == <<"0", "1", "2", "3", "4", "5", "6", "7", "8", "9">>[k + 1]

RECURSIVE Str(_)
Str(n) == IF n < 10 THEN <<Digit(n)>> ELSE Append(Str(n \div 10), Digit(n % 10))

\* the positions of the members of winter_trends
MemberPositions(wt) == {k[1] : k \in DOMAIN wt}

\* winter_trends.isel(member_id=i): the map of the member at position i
IselMember(wt, i) == [c \in Cells |-> wt[<<i, c>>]]

\* as EnsembleMean, averaging over every member of the ensemble
EnsembleMeanAll(wt) ==
    [c \in Cells |-> NanMean([i \in MemberPositions(wt) |-> wt[<<i, c>>]],
                             MemberPositions(wt))]

\* winter_trends.isel(member_id=range(30)).mean(dim="member_id")
EnsembleMean(wt) ==
    [c \in Cells |-> NanMean([i \in 0..(MeanMembers - 1) |-> wt[<<i, c>>]],
                             0..(MeanMembers - 1))]

MapInit ==
    /\ epc = "winter_trends"
    /\ \E n \in MeanMembers..(MeanMembers + MaxExtraMembers), w \in 0..MaxSeed :
          /\ winter_trends =
                [k \in (0..(n - 1)) \X Cells |->
                    Rat(((k[1] * (w + 2) + k[2] * k[1]) % 7) - 3, k[2])]
          /\ obs_winter_trends = [c \in Cells |-> Rat(w + c, 2)]
    /\ winter_trends_mean = << >>
    /\ ensemble_index = 0
    /\ panels = << >>

\* winter_trends_mean = winter_trends.isel(member_id=range(30)).mean(dim="member_id")
ComputeEnsembleMean ==
    /\ epc = "winter_trends"
    /\ winter_trends_mean' = EnsembleMean(winter_trends)
    /\ epc' = "winter_trends_mean"
    /\ UNCHANGED <<winter_trends, obs_winter_trends, ensemble_index, panels>>
    /\ UNCHANGED <<runVars, seasonVars, fig2Vars, trendVars>>

\* fig, axs = plt.subplots(numPlotRows, numPlotCols, ...); the loop starts
StartFigure ==
    /\ epc = "winter_trends_mean"
    /\ ensemble_index' = 0
    /\ panels' = << >>
    /\ epc' = "loop"
    /\ UNCHANGED <<winter_trends, winter_trends_mean, obs_winter_trends>>
    /\ UNCHANGED <<runVars, seasonVars, fig2Vars, trendVars>>

\* one iteration of: for ensemble_index in range(30)
PlotMember ==
    /\ epc = "loop"
    /\ ensemble_index < PanelMembers
    /\ LET plot_data == IselMember(winter_trends, ensemble_index)
           plot_index == ensemble_index + 1
           plot_label == Str(plot_index)
       IN panels' = (plot_index :> [label |-> plot_label, data |-> plot_data,
                                    member |-> ensemble_index]) @@ panels
    /\ ensemble_index' = ensemble_index + 1
    /\ UNCHANGED <<epc, winter_trends, winter_trends_mean, obs_winter_trends>>
    /\ UNCHANGED <<runVars, seasonVars, fig2Vars, trendVars>>

\* make_map_plot(numPlotRows, numPlotCols, 31, winter_trends_mean, "EM"),
\* once range(30) is exhausted
PlotEnsembleMean ==
    /\ epc = "loop"
    /\ ensemble_index = PanelMembers
    /\ panels' = (MeanPlotIndex :> [label |-> <<"E", "M">>, data |-> winter_trends_mean,
                                    member |-> 0 - 1]) @@ panels
    /\ epc' = "EM"
    /\ UNCHANGED <<winter_trends, winter_trends_mean, obs_winter_trends,
                   ensemble_index>>
    /\ UNCHANGED <<runVars, seasonVars, fig2Vars, trendVars>>

\* make_map_plot(numPlotRows, numPlotCols, 32, obs_winter_trends.tempanomaly, "OBS")
PlotObservations ==
    /\ epc = "EM"
    /\ panels' = (ObsPlotIndex :> [label |-> <<"O", "B", "S">>,
                                   data |-> obs_winter_trends,
                                   member |-> 0 - 1]) @@ panels
    /\ epc' = "OBS"
    /\ UNCHANGED <<winter_trends, winter_trends_mean, obs_winter_trends,
                   ensemble_index>>
    /\ UNCHANGED <<runVars, seasonVars, fig2Vars, trendVars>>

MapNext ==
    \/ ComputeEnsembleMean
    \/ StartFigure
    \/ PlotMember
    \/ PlotEnsembleMean
    \/ PlotObservations

MapSpecInit == RunInit /\ SeasonIdle /\ Fig2Idle /\ MapInit /\ TrendIdle

MapSpec == MapSpecInit /\ [][MapNext]_vars

MemberPanels == {i \in DOMAIN panels : panels[i].member >= 0}

\* C10: the map 'EM' is the mean over the first 30 members (positions 0..29)
\* of the per-member winter trends, and these are exactly the 30 members
\* drawn in the panels labelled 1..30; no other member enters the mean or
\* the panels.
C10_FirstThirtyMembers ==
    /\ epc \in {"winter_trends_mean", "loop", "EM", "OBS"} =>
          \A c \in Cells :
              winter_trends_mean[c] =
                  RatDiv(NanSum([i \in 0..29 |-> winter_trends[<<i, c>>]], 0..29),
                         RatInt(30))
    /\ epc \in {"loop", "EM", "OBS"} =>
          \A i \in MemberPanels :
              /\ i \in 1..30
              /\ panels[i].member = i - 1
              /\ panels[i].label = Str(i)
              /\ panels[i].data = IselMember(winter_trends, i - 1)
    /\ epc \in {"EM", "OBS"} =>
          /\ MemberPanels = 1..30
          /\ {panels[i].member : i \in MemberPanels} = 0..29
          /\ {panels[i].label : i \in MemberPanels} = {Str(i) : i \in 1..30}
          /\ panels[31].label = <<"E", "M">>
          /\ panels[31].data = winter_trends_mean

C10_Witness ==
    /\ epc = "OBS"
    /\ Cardinality(MemberPositions(winter_trends)) > 30
    /\ panels[30].label = <<"3", "0">>
    /\ EnsembleMeanAll(winter_trends) # winter_trends_mean

-----------------------------------------------------------------------------
(* linear_trend on the distributed scheduler: winter_trends (lines 535-537) *)
(* and obs_winter_trends (lines 624-626). The array da has the dimensions  *)
(* member_id, time, lat and lon; time is numbered from 0 and the other     *)
(* dimensions from 1.                                                      *)

SeriesLen == 3      \* length of da along dim
NTrendMembers == 1  \* length of da along member_id
NLat == 2           \* length of da along lat
NLon == 2           \* length of da along lon
MaxWorkers == 2     \* the cluster has 1..MaxWorkers workers
MaxDaSeed == 1      \* da_seed ranges over 0..MaxDaSeed
MaxBlocks == 4      \* da is cut into at most MaxBlocks chunks off dim

Positions == (1..NTrendMembers) \X (1..NLat) \X (1..NLon)

\* da at position p = <<member, lat, lon>> and time t: an odd seed leaves
\* every second value of a series missing, starting at time 0 on even
\* latitudes and at time 1 on odd ones
DaValue(p, t) ==
    IF da_seed % 2 = 1 /\ (t + p[2]) % 2 = 0 THEN NaN
    ELSE RatInt((t * p[2] + t * t * p[3] + t * p[1] + da_seed) % 5)

\* the complete series of position p along dim
Series(p) == [k \in 1..SeriesLen |-> DaValue(p, k - 1)]

\* the sums that the least-squares line needs, over the first k entries of y
\* and x = 0, 1, ..., with the entries where y is NaN dropped from both
RECURSIVE FiniteSums(_, _)
FiniteSums(y, k) ==
    IF k = 0
    THEN [n |-> 0, sx |-> 0, sxx |-> 0, sy |-> RatInt(0), sxy |-> RatInt(0)]
    ELSE LET r == FiniteSums(y, k - 1)
             x == k - 1
         IN IF IsNaN(y[k]) THEN r
            ELSE [n |-> r.n + 1, sx |-> r.sx + x, sxx |-> r.sxx + x * x,
                  sy |-> RatAdd(r.sy, y[k]),
                  sxy |-> RatAdd(r.sxy, RatMul(RatInt(x), y[k]))]

\* calc_slope(y): x = np.arange(len(y)); NaN when fewer than two values of y
\* are finite, else the slope of the least-squares line through the finite
\* (x, y), which is what np.polyfit(x, y, 1)[0] returns:
\*     (n * sum(x y) - sum(x) sum(y)) / (n * sum(x x) - sum(x)^2)
calc_slope(y) ==
    LET r == FiniteSums(y, Len(y))
    IN IF r.n < 2 THEN NaN
       ELSE RatDiv(RatSub(RatMul(RatInt(r.n), r.sxy), RatMul(RatInt(r.sx), r.sy)),
                   RatInt(r.n * r.sxx - r.sx * r.sx))

\* the sum of the first k entries of the sequence of chunk lengths c
RECURSIVE SumFirst(_, _)
SumFirst(c, k) == IF k = 0 THEN 0 ELSE c[k] + SumFirst(c, k - 1)

\* the ways of cutting an axis of length n into consecutive chunks
TimeChunkings(n) ==
    {c \in UNION {[1..k -> 1..n] : k \in 1..n} : SumFirst(c, Len(c)) = n}

\* number of chunks of the given size on an axis of length n
NumChunks(n, size) == (n + size - 1) \div size

\* the blocks of an array chunked as ch, each <<member, lat, lon, time>> chunk
\* numbers
Blocks(ch) ==
    (1..NumChunks(NTrendMembers, ch.member_id)) \X (1..NumChunks(NLat, ch.lat))
        \X (1..NumChunks(NLon, ch.lon)) \X (1..Len(ch.time))

\* the positions that block b holds
BlockPositions(ch, b) ==
    {p \in Positions : /\ (p[1] - 1) \div ch.member_id + 1 = b[1]
                       /\ (p[2] - 1) \div ch.lat + 1 = b[2]
                       /\ (p[3] - 1) \div ch.lon + 1 = b[3]}

\* what block b holds of the series of position p: the values of its chunk
\* of dim
BlockSeries(ch, b, p) ==
    LET offset == SumFirst(ch.time, b[4] - 1)
    IN [k \in 1..ch.time[b[4]] |-> DaValue(p, offset + k - 1)]

\* as Rechunk, leaving the chunks of dim as they are
RechunkKeep(ch) == ch

\* da.chunk({dim: -1}): dim in one chunk, the other dimensions as they are
Rechunk(ch) == [ch EXCEPT !.time = <<SeriesLen>>]

\* da arrives chunked in any way along every dimension, on a cluster of any
\* size
TrendInit ==
    /\ tpc = "da"
    /\ da_seed \in 0..MaxDaSeed
    /\ da_chunks \in {ch \in [time : TimeChunkings(SeriesLen),
                              member_id : 1..NTrendMembers,
                              lat : 1..NLat,
                              lon : 1..NLon] :
                         Cardinality(Blocks(Rechunk(ch))) <= MaxBlocks}
    /\ da_chunk = <<>>
    /\ n_workers \in 1..MaxWorkers
    /\ pending = {}
    /\ running = <<>>
    /\ trend = <<>>

\* da_chunk = da.chunk({dim: -1})
RechunkDim ==
    /\ tpc = "da"
    /\ da_chunk' = Rechunk(da_chunks)
    /\ tpc' = "da_chunk"
    /\ UNCHANGED <<da_seed, da_chunks, n_workers, pending, running, trend>>
    /\ UNCHANGED <<runVars, seasonVars, fig2Vars, mapVars>>

\* trend = xr.apply_ufunc(calc_slope, da_chunk, ..., dask="parallelized"): a
\* lazy array with one task per block of da_chunk; a core dimension in more
\* than one chunk is refused with a ValueError
ApplyUfunc ==
    /\ tpc = "da_chunk"
    /\ tpc' = IF Len(da_chunk.time) > 1 THEN "ValueError" ELSE "trend"
    /\ UNCHANGED <<da_seed, da_chunks, da_chunk, n_workers, pending, running,
                   trend>>
    /\ UNCHANGED <<runVars, seasonVars, fig2Vars, mapVars>>

\* .load(): the tasks of the graph go to the scheduler
Load ==
    /\ tpc = "trend"
    /\ pending' = Blocks(da_chunk)
    /\ tpc' = "computing"
    /\ UNCHANGED <<da_seed, da_chunks, da_chunk, n_workers, running, trend>>
    /\ UNCHANGED <<runVars, seasonVars, fig2Vars, mapVars>>

\* the scheduler hands the task of block b to the idle worker w
StartTask(w, b) ==
    /\ tpc = "computing"
    /\ w \notin DOMAIN running
    /\ b \in pending
    /\ pending' = pending \ {b}
    /\ running' = [v \in DOMAIN running \cup {w} |->
                      IF v = w THEN b ELSE running[v]]
    /\ UNCHANGED <<tpc, da_seed, da_chunks, da_chunk, n_workers, trend>>
    /\ UNCHANGED <<runVars, seasonVars, fig2Vars, mapVars>>

\* worker w finishes its task: calc_slope, vectorized over the positions of
\* the block, on what the block holds along dim; the result is the block of
\* trend at these positions, without dim
FinishTask(w) ==
    /\ tpc = "computing"
    /\ w \in DOMAIN running
    /\ LET b == running[w]
           at == BlockPositions(da_chunk, b)
       IN trend' = [p \in DOMAIN trend \cup at |->
                       IF p \in at THEN calc_slope(BlockSeries(da_chunk, b, p))
                       ELSE trend[p]]
    /\ running' = [v \in DOMAIN running \ {w} |-> running[v]]
    /\ UNCHANGED <<tpc, da_seed, da_chunks, da_chunk, n_workers, pending>>
    /\ UNCHANGED <<runVars, seasonVars, fig2Vars, mapVars>>

\* .load() returns once every task has finished
Gather ==
    /\ tpc = "computing"
    /\ pending = {}
    /\ DOMAIN running = {}
    /\ tpc' = "loaded"
    /\ UNCHANGED <<da_seed, da_chunks, da_chunk, n_workers, pending, running,
                   trend>>
    /\ UNCHANGED <<runVars, seasonVars, fig2Vars, mapVars>>

TrendNext ==
    \/ RechunkDim
    \/ ApplyUfunc
    \/ Load
    \/ \E w \in 1..n_workers : \E b \in pending : StartTask(w, b)
    \/ \E w \in 1..n_workers : FinishTask(w)
    \/ Gather

TrendSpecInit == RunInit /\ SeasonIdle /\ Fig2Idle /\ MapIdle /\ TrendInit

TrendSpec == TrendSpecInit /\ [][TrendNext]_vars

\* C11: linear_trend puts dim into a single chunk before apply_ufunc, so the
\* graph is accepted and every task's block holds the complete series along
\* dim; every value of trend computed so far, and every value once loaded, is
\* calc_slope of the complete series of its own position <<member, lat, lon>>
\* (trend has no dim axis), whatever the chunks of da, the number of workers
\* and the order in which the tasks start and finish.
C11_TrendPerPosition ==
    /\ tpc \notin {"idle", "da"} => da_chunk.time = <<SeriesLen>>
    /\ tpc # "ValueError"
    /\ \A w \in DOMAIN running :
          \A p \in BlockPositions(da_chunk, running[w]) :
              BlockSeries(da_chunk, running[w], p) = Series(p)
    /\ DOMAIN trend \subseteq Positions
    /\ \A p \in DOMAIN trend : trend[p] = calc_slope(Series(p))
    /\ tpc = "loaded" => DOMAIN trend = Positions

\* loaded from an input in several chunks along dim and several blocks, on
\* more than one worker, with a series too short to fit and a non-zero slope
C11_Witness ==
    /\ tpc = "loaded"
    /\ Len(da_chunks.time) > 1
    /\ Cardinality(Blocks(da_chunk)) > 1
    /\ n_workers > 1
    /\ \E p \in Positions : IsNaN(trend[p])
    /\ \E p \in Positions : ~IsNaN(trend[p]) /\ trend[p].n # 0

=============================================================================
